---- MODULE Spec2Model ----
(***************************************************************************)
(* A model of the stockfighter client library (package stockfighter):      *)
(*   - the request executor Stockfighter.do and the synchronous facade     *)
(*     operations built on it (Heartbeat, OrderBook, Place, Judge) [Spec]  *)
(*   - the subscription pump behind Quotes and Executions        [SpecPump]*)
(*   - the OrderType text codec and Depth of types.go            [SpecTypes]*)
(* Texts that pass through fmt.Errorf are sequences of one-character       *)
(* strings, so that the format-verb processing of fmt is modelled.         *)
(***************************************************************************)
EXTENDS Integers, Sequences, FiniteSets, TLC

VARIABLES
    call,        \* the last completed synchronous facade call
    pc,          \* per subscription: position of the Quotes/Executions call and its pump goroutine
    wire,        \* per subscription: the results of the ReadMessage calls made so far, in order
    pending,     \* per subscription: the event the pump is blocked sending (0: none)
    received,    \* per subscription: the events the consumer has received, in order
    chanClosed,  \* per subscription: close(c) has been executed
    closes,      \* per subscription: number of close(c) executions
    connClosed,  \* per subscription: conn.Close() has been executed
    dials,       \* per subscription: number of Dial calls
    ret,         \* per subscription: what Quotes/Executions returned
    sawClose,    \* per subscription: the consumer's receive has observed the closed channel
    gone,        \* per subscription: the consumer has stopped receiving, for good
    mar,         \* the last OrderType.MarshalText call
    unm,         \* the last OrderType.UnmarshalText call
    dep          \* the last StandingOrderSlice.Depth call

vars == <<call, pc, wire, pending, received, chanClosed, closes, connClosed,
          dials, ret, sawClose, gone, mar, unm, dep>>

doVars == <<call>>
pumpVars == <<pc, wire, pending, received, chanClosed, closes, connClosed, dials, ret, sawClose,
              gone>>
typeVars == <<mar, unm, dep>>

----------------------------------------------------------------------------
(* Bounds of the model *)

\* longest list of asks (and of bids) in an order book response
MaxOrders == 2
\* prices of standing orders are 1..MaxPrice
MaxPrice == 2
\* number of ReadMessage calls a pump makes before the connection goes quiet
MaxFrames == 3
\* distinct quote/execution payloads are 1..MaxPayload
MaxPayload == 2
MaxFramesTwo == 2

----------------------------------------------------------------------------
(* types.go: the OrderType enumeration and its text codec *)

Limit == 0
Market == 1
FillOrKill == 2
ImmediateOrCancel == 3

OrderTypes == {Limit, Market, FillOrKill, ImmediateOrCancel}

\* var orderTypes = [...]string{...}; Go index o is TLA+ index o + 1
orderTypes == <<"limit", "market", "fill-or-kill", "immediate-or-cancel">>

\* var orderTypeMap = map[string]OrderType{...}
orderTypeMap ==
    [t \in {"limit", "market", "fill-or-kill", "immediate-or-cancel"} |->
        CASE t = "limit" -> Limit
          [] t = "market" -> Market
          [] t = "fill-or-kill" -> FillOrKill
          [] t = "immediate-or-cancel" -> ImmediateOrCancel]

\* func (o OrderType) MarshalText() ([]byte, error): orderTypes[o] panics (index out of
\* range) for an o that is none of the four constants; the error is always nil
MarshalText(o) ==
    IF 0 <= o /\ o < Len(orderTypes)
    THEN [text |-> orderTypes[o + 1], err |-> FALSE, panic |-> FALSE]
    ELSE [text |-> "", err |-> FALSE, panic |-> TRUE]

\* a decoder that falls back to the zero value, Limit, on an unknown text
UnmarshalText_Default(o, text) ==
    IF text \in DOMAIN orderTypeMap
    THEN [o |-> orderTypeMap[text], err |-> FALSE]
    ELSE [o |-> Limit, err |-> FALSE]

\* func (o *OrderType) UnmarshalText(text []byte) error; o is the value of *o before the call
UnmarshalText(o, text) ==
    IF text \in DOMAIN orderTypeMap
    THEN [o |-> orderTypeMap[text], err |-> FALSE]
    ELSE [o |-> o, err |-> TRUE]

----------------------------------------------------------------------------
(* types.go: uint64 quantities and StandingOrderSlice.Depth.                *)
(* A uint64 is four 16-bit limbs, least significant first, so that the sum  *)
(* wraps at 2^64 as the machine's does.                                     *)

LimbBase == 65536

Zero64 == <<0, 0, 0, 0>>

\* a + b on uint64: the carry out of the top limb is lost
Add64(a, b) ==
    LET s1 == a[1] + b[1]
        s2 == a[2] + b[2] + (s1 \div LimbBase)
        s3 == a[3] + b[3] + (s2 \div LimbBase)
        s4 == a[4] + b[4] + (s3 \div LimbBase)
    IN <<s1 % LimbBase, s2 % LimbBase, s3 % LimbBase, s4 % LimbBase>>

\* the quantities of the standing orders: 0, 1, 2^63 and 2^64 - 1
Quantities ==
    { Zero64,
      <<1, 0, 0, 0>>,
      <<0, 0, 0, 32768>>,
      <<65535, 65535, 65535, 65535>> }

\* a Depth whose loop assigns instead of adding (depth = so.Quantity)
RECURSIVE DepthFrom_Assign(_, _)
DepthFrom_Assign(depth, orders) ==
    IF orders = <<>> THEN depth
    ELSE DepthFrom_Assign(Head(orders), Tail(orders))

\* the loop of Depth: for _, so := range s { depth += so.Quantity }
RECURSIVE DepthFrom(_, _)
DepthFrom(depth, orders) ==
    IF orders = <<>> THEN depth
    ELSE DepthFrom(Add64(depth, Head(orders)), Tail(orders))

\* func (s StandingOrderSlice) Depth() uint64; an order is given by its quantity
Depth(orders) == DepthFrom(Zero64, orders)

----------------------------------------------------------------------------
(* fmt: the text fmt.Errorf(format) produces when called with no arguments. *)
(* A text is a sequence of one-character strings; the two diagnostics fmt   *)
(* inserts are kept as single elements.                                     *)

RECURSIVE Sprintf(_)
Sprintf(format) ==
    IF format = <<>> THEN <<>>
    ELSE IF Head(format) # "%" THEN <<Head(format)>> \o Sprintf(Tail(format))
    ELSE IF Len(format) = 1 THEN <<"%!(NOVERB)">>
    ELSE IF format[2] = "%" THEN <<"%">> \o Sprintf(Tail(Tail(format)))
    ELSE <<"%!", format[2], "(MISSING)">> \o Sprintf(Tail(Tail(format)))

----------------------------------------------------------------------------
(* api.go: the response envelope and the request executor *)

\* the error values of the model: kind tells where the error was made, text is err.Error()
NilError == [kind |-> "nil", text |-> <<>>]

\* func (r response) Err() error
Err(r) ==
    IF Len(r.Error) > 0
    THEN [kind |-> "business", text |-> Sprintf(r.Error)]
    ELSE NilError

\* error strings a response envelope may carry
ErrorStrings ==
    { <<>>,
      <<"b", "o", "o", "m">>,
      <<"5", "%">>,
      <<"%", "d">>,
      <<"%", "%">> }

\* HTTP status codes of the responses, and their status lines (resp.Status)
StatusCodes == {200, 404, 499, 500, 503}

StatusLine(code) ==
    CASE code = 200 -> <<"200 OK">>
      [] code = 404 -> <<"404 Not Found">>
      [] code = 499 -> <<"499 status code 499">>
      [] code = 500 -> <<"500 Internal Server Error">>
      [] code = 503 -> <<"503 Service Unavailable">>

Venues == {"TESTEX", "OTHEREX"}
Stocks == {"FOOBAR", "BAZ"}
\* a venue name that makes the request URL unparsable (an invalid URL escape)
BadVenue == "%zz"

\* the texts a response may carry as its orderType
TypeTexts == {"market", "immediate-or-cancel", "Market"}

Prices == 1..MaxPrice

RECURSIVE SeqsUpTo(_, _)
SeqsUpTo(S, n) ==
    IF n = 0 THEN {<<>>}
    ELSE LET shorter == SeqsUpTo(S, n - 1)
         IN shorter \cup {Append(q, x) : q \in {r \in shorter : Len(r) = n - 1}, x \in S}

\* a response body that is not JSON of the expected shape
Garbage ==
    [json |-> FALSE, Ok |-> FALSE, Error |-> <<>>, venue |-> "", symbol |-> "",
     orderType |-> "limit", asks |-> <<>>, bids |-> <<>>]

\* a JSON body: the envelope fields and the payload fields, merged into one object
Envelope(ok, error) ==
    [json |-> TRUE, Ok |-> ok, Error |-> error, venue |-> "", symbol |-> "",
     orderType |-> "limit", asks |-> <<>>, bids |-> <<>>]

EnvelopeBodies == {Garbage} \cup {Envelope(ok, e) : ok \in BOOLEAN, e \in ErrorStrings}

OrderBookBodies ==
    {Garbage} \cup
    {[Envelope(ok, e) EXCEPT !.asks = a, !.bids = b] :
        ok \in BOOLEAN, e \in {<<>>, <<"b", "o", "o", "m">>},
        a \in SeqsUpTo(Prices, MaxOrders), b \in SeqsUpTo(Prices, MaxOrders)}

OrderBodies ==
    {Garbage} \cup
    {[Envelope(ok, e) EXCEPT !.venue = v, !.symbol = s, !.orderType = t] :
        ok \in BOOLEAN, e \in ErrorStrings, v \in Venues, s \in Stocks, t \in TypeTexts}

\* the zero value of a response shape (var resp orderBookResponse, var resp orderResponse, ...)
ZeroValue ==
    [Ok |-> FALSE, Error |-> <<>>, venue |-> "", symbol |-> "", type |-> Limit,
     asks |-> <<>>, bids |-> <<>>]

\* a decoder that hands back the asks best price first, whatever the body holds
RECURSIVE Insert(_, _)
Insert(x, sorted) ==
    IF sorted = <<>> THEN <<x>>
    ELSE IF x <= Head(sorted) THEN <<x>> \o sorted
    ELSE <<Head(sorted)>> \o Insert(x, Tail(sorted))

RECURSIVE SortAsc(_)
SortAsc(q) == IF q = <<>> THEN <<>> ELSE Insert(Head(q), SortAsc(Tail(q)))

Reverse(q) == [i \in 1..Len(q) |-> q[Len(q) + 1 - i]]

decodeOrders_Sorting(side, orders) ==
    IF side = "asks" THEN SortAsc(orders) ELSE Reverse(SortAsc(orders))

\* encoding/json decoding a JSON array into a StandingOrderSlice: element by element, in order
decodeOrders(side, orders) == [i \in 1..Len(orders) |-> orders[i]]

\* json.NewDecoder(resp.Body).Decode(value), value being a zero-valued response shape
Decode(shape, body) ==
    IF ~body.json THEN [err |-> TRUE, value |-> ZeroValue]
    ELSE LET base == [ZeroValue EXCEPT !.Ok = body.Ok, !.Error = body.Error]
         IN CASE shape = "response" -> [err |-> FALSE, value |-> base]
              [] shape = "orderBookResponse" ->
                    [err |-> FALSE,
                     value |-> [base EXCEPT !.asks = decodeOrders("asks", body.asks),
                                            !.bids = decodeOrders("bids", body.bids)]]
              [] shape = "orderResponse" ->
                    LET u == UnmarshalText(ZeroValue.type, body.orderType)
                    IN [err |-> u.err,
                        value |-> [base EXCEPT !.venue = body.venue, !.symbol = body.symbol,
                                               !.type = u.o]]

\* the first version of do: a decode error is returned whatever the status
do_EarlierVersion(urlOk, transportOk, status, shape, body) ==
    IF ~urlOk THEN [err |-> [kind |-> "request", text |-> <<"invalid URL">>],
                    value |-> ZeroValue, sent |-> FALSE]
    ELSE IF ~transportOk THEN [err |-> [kind |-> "transport", text |-> <<"dial tcp">>],
                               value |-> ZeroValue, sent |-> TRUE]
    ELSE LET d == Decode(shape, body)
         IN IF d.err
            THEN [err |-> [kind |-> "decode", text |-> <<"invalid character">>],
                  value |-> d.value, sent |-> TRUE]
            ELSE [err |-> Err(d.value), value |-> d.value, sent |-> TRUE]

\* func (sf *Stockfighter) do(method, url string, body io.Reader, value apiCall) error
do(urlOk, transportOk, status, shape, body) ==
    IF ~urlOk THEN [err |-> [kind |-> "request", text |-> <<"invalid URL">>],
                    value |-> ZeroValue, sent |-> FALSE]
    ELSE IF ~transportOk THEN [err |-> [kind |-> "transport", text |-> <<"dial tcp">>],
                               value |-> ZeroValue, sent |-> TRUE]
    ELSE LET d == Decode(shape, body)
         IN IF d.err
            THEN IF status >= 500
                 THEN [err |-> [kind |-> "status", text |-> Sprintf(StatusLine(status))],
                       value |-> d.value, sent |-> TRUE]
                 ELSE [err |-> [kind |-> "decode", text |-> <<"invalid character">>],
                       value |-> d.value, sent |-> TRUE]
            ELSE [err |-> Err(d.value), value |-> d.value, sent |-> TRUE]

\* url.Parse of the request URL built from the venue
urlParses(venue) == venue # BadVenue

\* no call is in progress or awaiting its caller
NoCall ==
    [op |-> "none", venue |-> "", stock |-> "", otype |-> Limit, sent |-> FALSE,
     transportOk |-> FALSE, status |-> 0, body |-> Garbage, err |-> NilError,
     nilResult |-> TRUE, result |-> ZeroValue, encoded |-> FALSE, panicked |-> FALSE]

\* func (sf *Stockfighter) Heartbeat(venue string) error
Heartbeat(venue, transportOk, status, body) ==
    /\ call.op = "none"
    /\ LET r == do(urlParses(venue), transportOk, status, "response", body)
       IN call' = [NoCall EXCEPT !.op = "Heartbeat", !.venue = venue, !.sent = r.sent,
                                 !.transportOk = transportOk, !.status = status,
                                 !.body = body, !.err = r.err]
    /\ UNCHANGED <<pumpVars, typeVars>>

\* func (sf *Stockfighter) OrderBook(venue, stock string) (*OrderBook, error)
OrderBook(venue, stock, transportOk, status, body) ==
    /\ call.op = "none"
    /\ LET r == do(urlParses(venue), transportOk, status, "orderBookResponse", body)
       IN call' = [NoCall EXCEPT !.op = "OrderBook", !.venue = venue, !.stock = stock,
                                 !.sent = r.sent, !.transportOk = transportOk,
                                 !.status = status, !.body = body, !.err = r.err,
                                 !.nilResult = (r.err # NilError),
                                 !.result = IF r.err # NilError THEN ZeroValue ELSE r.value]
    /\ UNCHANGED <<pumpVars, typeVars>>

\* func encodeJson(v interface{}) (io.Reader, error), for an *Order or an *Evidence:
\* encoding/json calls MarshalText for the OrderType field, turns an error it returns
\* into the encoder's error and lets its panic (a runtime error) through
encodeJson(v) ==
    IF "OrderType" \in DOMAIN v
    THEN LET m == MarshalText(v.OrderType)
         IN [panic |-> m.panic, err |-> m.err,
             body |-> [venue |-> v.Venue, stock |-> v.Stock, orderType |-> m.text]]
    ELSE [panic |-> FALSE, err |-> FALSE, body |-> v]

\* func (sf *Stockfighter) Place(order *Order) (*OrderState, error)
Place(order, transportOk, status, body) ==
    /\ call.op = "none"
    /\ LET e == encodeJson(order)
           r == do(urlParses(order.Venue), transportOk, status, "orderResponse", body)
           c == [NoCall EXCEPT !.op = "Place", !.venue = order.Venue, !.stock = order.Stock,
                               !.otype = order.OrderType]
       IN call' =
            IF e.panic
            THEN [c EXCEPT !.panicked = TRUE]
            ELSE IF e.err
            THEN [c EXCEPT !.err = [kind |-> "encode", text |-> <<"json">>]]
            ELSE [c EXCEPT !.encoded = TRUE,
                           !.sent = r.sent, !.transportOk = transportOk,
                           !.status = status, !.body = body, !.err = r.err,
                           !.nilResult = (r.err # NilError),
                           !.result = IF r.err # NilError THEN ZeroValue ELSE r.value]
    /\ UNCHANGED <<pumpVars, typeVars>>

\* func (sf *Stockfighter) Judge(id uint64, evidence *Evidence) (*GameState, error);
\* the URL is built from the id and always parses
Judge(evidence, transportOk, status, body) ==
    /\ call.op = "none"
    /\ LET e == encodeJson(evidence)
           r == do(TRUE, transportOk, status, "response", body)
           c == [NoCall EXCEPT !.op = "Judge"]
       IN call' =
            IF e.panic
            THEN [c EXCEPT !.panicked = TRUE]
            ELSE IF e.err
            THEN [c EXCEPT !.err = [kind |-> "encode", text |-> <<"json">>]]
            ELSE [c EXCEPT !.encoded = TRUE,
                           !.sent = r.sent, !.transportOk = transportOk,
                           !.status = status, !.body = body, !.err = r.err,
                           !.nilResult = (r.err # NilError),
                           !.result = IF r.err # NilError THEN ZeroValue ELSE r.value]
    /\ UNCHANGED <<pumpVars, typeVars>>

\* the caller takes the results; every call starts from fresh local variables
Return ==
    /\ call.op # "none"
    /\ call' = NoCall
    /\ UNCHANGED <<pumpVars, typeVars>>

----------------------------------------------------------------------------
(* api.go: the subscriptions Quotes and Executions and their pump *)

Subs == {"Quotes", "Executions"}

Payloads == 1..MaxPayload

\* what one conn.ReadMessage call yields: a read error, bytes that are no JSON of the
\* message shape, or a JSON message with its ok flag and its payload (0: none)
ReadError == [kind |-> "readerr", Ok |-> FALSE, payload |-> 0]
Malformed == [kind |-> "malformed", Ok |-> FALSE, payload |-> 0]
NotOkFrame == [kind |-> "json", Ok |-> FALSE, payload |-> 0]
OkFrame(p) == [kind |-> "json", Ok |-> TRUE, payload |-> p]

Frames == {ReadError, Malformed, NotOkFrame} \cup {OkFrame(p) : p \in Payloads}

\* func (sf *Stockfighter) decodeMessage(conn *websocket.Conn, v interface{}) error,
\* v being a zero-valued quoteMessage or executionMessage
decodeMessage(frame) ==
    IF frame.kind = "readerr" THEN [err |-> TRUE, Ok |-> FALSE, payload |-> 0]
    ELSE IF frame.kind = "malformed" THEN [err |-> TRUE, Ok |-> FALSE, payload |-> 0]
    ELSE [err |-> FALSE, Ok |-> frame.Ok, payload |-> frame.payload]

\* a handler that ignores a failed read and carries on
handler_IgnoreError(m) ==
    IF m.Ok THEN "send" ELSE "next"

\* a handler that sends whatever it decoded, ok or not
handler_SendAlways(m) ==
    IF m.err THEN "close" ELSE "send"

\* the closure Quotes and Executions hand to pump, after its decodeMessage call:
\* close(c) and return the error, send and return nil, or just return nil
handler(m) ==
    IF m.err THEN "close"
    ELSE IF m.Ok THEN "send"
    ELSE "next"

\* func (sf *Stockfighter) Quotes / Executions (account, venue, stock string): make the
\* channel, dial in pump, start the goroutine if the dial succeeded, return (c, err)
Subscribe(s, dialOk) ==
    /\ pc[s] = "idle"
    /\ dials' = [dials EXCEPT ![s] = @ + 1]
    /\ ret' = [ret EXCEPT ![s] = [returned |-> TRUE, chanNil |-> FALSE, err |-> ~dialOk]]
    /\ pc' = [pc EXCEPT ![s] = IF dialOk THEN "read" ELSE "failed"]
    /\ UNCHANGED <<wire, pending, received, chanClosed, closes, connClosed, sawClose, gone,
                   doVars, typeVars>>

\* a loop with no condition: it calls the handler again whatever it returned
loopNext_Forever(h) ==
    CASE h = "close" -> "read"
      [] h = "send" -> "send"
      [] h = "next" -> "read"

\* for err := f(conn); err == nil; err = f(conn) {}: where the goroutine is after the
\* handler's step h; a returned error ends the loop, nil calls the handler again, and
\* a send is still inside the handler
loopNext(h) ==
    CASE h = "close" -> "exit"
      [] h = "send" -> "send"
      [] h = "next" -> "read"

\* one call of the handler by the pump's loop, up to its return or its blocking send
PumpRead(s, frame) ==
    /\ pc[s] = "read"
    /\ Len(wire[s]) < MaxFrames
    /\ wire' = [wire EXCEPT ![s] = Append(@, frame)]
    /\ LET m == decodeMessage(frame)
           h == handler(m)
       IN /\ chanClosed' = [chanClosed EXCEPT ![s] = @ \/ (h = "close")]
          /\ closes' = [closes EXCEPT ![s] = IF h = "close" THEN @ + 1 ELSE @]
          /\ pending' = [pending EXCEPT ![s] = IF h = "send" THEN m.payload ELSE @]
          /\ pc' = [pc EXCEPT ![s] = loopNext(h)]
    /\ UNCHANGED <<received, connClosed, dials, ret, sawClose, gone, doVars, typeVars>>

\* a send that gives up when no receiver is there (select with a default branch)
Deliver_NonBlocking(s) ==
    /\ pc[s] = "send"
    /\ ~chanClosed[s]
    /\ received' = [received EXCEPT ![s] = IF gone[s] THEN @ ELSE Append(@, pending[s])]
    /\ pending' = [pending EXCEPT ![s] = 0]
    /\ pc' = [pc EXCEPT ![s] = "read"]
    /\ UNCHANGED <<wire, chanClosed, closes, connClosed, dials, ret, sawClose, gone,
                   doVars, typeVars>>

\* c <- &quote.Quote meets the <-c of a consumer that is still receiving (the channel is
\* unbuffered); the handler returns nil and the loop calls it again
Deliver(s) ==
    /\ pc[s] = "send"
    /\ ~chanClosed[s]
    /\ ~gone[s]
    /\ received' = [received EXCEPT ![s] = Append(@, pending[s])]
    /\ pending' = [pending EXCEPT ![s] = 0]
    /\ pc' = [pc EXCEPT ![s] = "read"]
    /\ UNCHANGED <<wire, chanClosed, closes, connClosed, dials, ret, sawClose, gone,
                   doVars, typeVars>>

\* a pump whose connection is one connection shared by all subscriptions
PumpExit_SharedConn(s) ==
    /\ pc[s] = "exit"
    /\ connClosed' = [t \in Subs |-> TRUE]
    /\ pc' = [pc EXCEPT ![s] = "done"]
    /\ UNCHANGED <<wire, pending, received, chanClosed, closes, dials, ret, sawClose, gone,
                   doVars, typeVars>>

\* a goroutine that ends without the deferred conn.Close()
PumpExit_NoClose(s) ==
    /\ pc[s] = "exit"
    /\ pc' = [pc EXCEPT ![s] = "done"]
    /\ UNCHANGED <<wire, pending, received, chanClosed, closes, connClosed, dials, ret,
                   sawClose, gone, doVars, typeVars>>

\* the loop has ended on the handler's error: the deferred conn.Close() runs
PumpExit(s) ==
    /\ pc[s] = "exit"
    /\ connClosed' = [connClosed EXCEPT ![s] = TRUE]
    /\ pc' = [pc EXCEPT ![s] = "done"]
    /\ UNCHANGED <<wire, pending, received, chanClosed, closes, dials, ret, sawClose, gone,
                   doVars, typeVars>>

\* the consumer's <-c on the closed channel: it yields nil at once
ReceiveClosed(s) ==
    /\ ret[s].returned
    /\ chanClosed[s]
    /\ ~sawClose[s]
    /\ ~gone[s]
    /\ sawClose' = [sawClose EXCEPT ![s] = TRUE]
    /\ UNCHANGED <<pc, wire, pending, received, chanClosed, closes, connClosed, dials, ret,
                   gone, doVars, typeVars>>

\* the consumer stops receiving from the channel and drops it; the API has no call
\* that tells the pump
Abandon(s) ==
    /\ ret[s].returned
    /\ ~gone[s]
    /\ gone' = [gone EXCEPT ![s] = TRUE]
    /\ UNCHANGED <<pc, wire, pending, received, chanClosed, closes, connClosed, dials, ret,
                   sawClose, doVars, typeVars>>

----------------------------------------------------------------------------
(* types.go: calls of the OrderType codec *)

\* texts handed to UnmarshalText
TextInputs ==
    {"limit", "market", "fill-or-kill", "immediate-or-cancel",
     "Limit", "LIMIT", "", "limit ", "stop", "fill_or_kill", "ioc"}

NoMarshal == [called |-> FALSE, o |-> Limit, text |-> "", err |-> FALSE]
NoUnmarshal ==
    [called |-> FALSE, before |-> Limit, text |-> "", after |-> Limit, err |-> FALSE,
     ofMarshal |-> FALSE, src |-> Limit]

\* text, err := o.MarshalText()
CallMarshalText(o) ==
    /\ ~MarshalText(o).panic
    /\ mar' = [called |-> TRUE, o |-> o, text |-> MarshalText(o).text,
               err |-> MarshalText(o).err]
    /\ UNCHANGED <<unm, dep, doVars, pumpVars>>

\* err := target.UnmarshalText(text), target holding o before the call
CallUnmarshalText(o, text) ==
    /\ LET u == UnmarshalText(o, text)
       IN unm' = [called |-> TRUE, before |-> o, text |-> text, after |-> u.o,
                  err |-> u.err, ofMarshal |-> FALSE, src |-> Limit]
    /\ UNCHANGED <<mar, dep, doVars, pumpVars>>

\* err := target.UnmarshalText(text) with the text the last MarshalText call produced
CallRoundTrip(o) ==
    /\ mar.called
    /\ ~mar.err
    /\ LET u == UnmarshalText(o, mar.text)
       IN unm' = [called |-> TRUE, before |-> o, text |-> mar.text, after |-> u.o,
                  err |-> u.err, ofMarshal |-> TRUE, src |-> mar.o]
    /\ UNCHANGED <<mar, dep, doVars, pumpVars>>

NoDepth == [called |-> FALSE, orders |-> <<>>, depth |-> Zero64]

\* depth := orders.Depth()
CallDepth(orders) ==
    /\ dep' = [called |-> TRUE, orders |-> orders, depth |-> Depth(orders)]
    /\ UNCHANGED <<mar, unm, doVars, pumpVars>>

----------------------------------------------------------------------------
(* Specifications *)

Init ==
    /\ call = NoCall
    /\ pc = [s \in Subs |-> "idle"]
    /\ wire = [s \in Subs |-> <<>>]
    /\ pending = [s \in Subs |-> 0]
    /\ received = [s \in Subs |-> <<>>]
    /\ chanClosed = [s \in Subs |-> FALSE]
    /\ closes = [s \in Subs |-> 0]
    /\ connClosed = [s \in Subs |-> FALSE]
    /\ dials = [s \in Subs |-> 0]
    /\ ret = [s \in Subs |-> [returned |-> FALSE, chanNil |-> TRUE, err |-> FALSE]]
    /\ sawClose = [s \in Subs |-> FALSE]
    /\ gone = [s \in Subs |-> FALSE]
    /\ mar = NoMarshal
    /\ unm = NoUnmarshal
    /\ dep = NoDepth

\* what the server and the network may answer to a request sent with the given bodies
Responses(bodies) ==
    {[transportOk |-> FALSE, status |-> 0, body |-> Garbage]} \cup
    {[transportOk |-> TRUE, status |-> c, body |-> b] : c \in StatusCodes, b \in bodies}

\* the values an Order's OrderType field may hold: the four constants, and the ints
\* next to them, which are none of the four
OrderTypeValues == OrderTypes \cup {Limit - 1, ImmediateOrCancel + 1}

Orders ==
    [Venue : Venues \cup {BadVenue}, Stock : Stocks, OrderType : OrderTypeValues]

Evidences ==
    {[Account |-> "ACC", ExplanationLink |-> "http://e", ExecutiveSummary |-> "sum"]}

\* the synchronous facade: one call at a time, each by a caller that is not inside a call
Next ==
    \/ /\ call.op = "none"
       /\ \E v \in Venues \cup {"", BadVenue}, r \in Responses(EnvelopeBodies) :
            Heartbeat(v, r.transportOk, r.status, r.body)
    \/ /\ call.op = "none"
       /\ \E v \in Venues \cup {BadVenue}, st \in Stocks, r \in Responses(OrderBookBodies) :
            OrderBook(v, st, r.transportOk, r.status, r.body)
    \/ /\ call.op = "none"
       /\ \E o \in Orders, r \in Responses(OrderBodies) :
            Place(o, r.transportOk, r.status, r.body)
    \/ /\ call.op = "none"
       /\ \E ev \in Evidences, r \in Responses(EnvelopeBodies) :
            Judge(ev, r.transportOk, r.status, r.body)
    \/ Return

Spec == Init /\ [][Next]_vars

\* no subscription other than s has been asked for
Alone(s) == \A t \in Subs \ {s} : pc[t] = "idle"

\* one subscription, Quotes or Executions, its pump and its consumer
NextPump ==
    \/ \E s \in Subs, dialOk \in BOOLEAN : Alone(s) /\ Subscribe(s, dialOk)
    \/ \E s \in Subs, f \in Frames : Alone(s) /\ PumpRead(s, f)
    \/ \E s \in Subs : Alone(s) /\ Deliver(s)
    \/ \E s \in Subs : Alone(s) /\ PumpExit(s)
    \/ \E s \in Subs : Alone(s) /\ ReceiveClosed(s)
    \/ \E s \in Subs : Alone(s) /\ Abandon(s)

SpecPump == Init /\ [][NextPump]_vars

\* one subscription whose consumer never gives up
NextPumpLive ==
    \/ \E s \in Subs, dialOk \in BOOLEAN : Alone(s) /\ Subscribe(s, dialOk)
    \/ \E s \in Subs, f \in Frames : Alone(s) /\ PumpRead(s, f)
    \/ \E s \in Subs : Alone(s) /\ Deliver(s)
    \/ \E s \in Subs : Alone(s) /\ PumpExit(s)
    \/ \E s \in Subs : Alone(s) /\ ReceiveClosed(s)

\* the Go scheduler runs a runnable goroutine: a pump whose loop has ended gets to run
\* its deferred close, and a consumer that keeps receiving meets the pump's send
PumpFairness ==
    \A s \in Subs :
        /\ WF_vars(Alone(s) /\ Deliver(s))
        /\ WF_vars(Alone(s) /\ PumpExit(s))

SpecPumpFair == Init /\ [][NextPumpLive]_vars /\ PumpFairness

\* Quotes and Executions subscribed side by side, their goroutines and their consumers
\* interleaved in every order
NextTwo ==
    \/ \E s \in Subs, dialOk \in BOOLEAN : Subscribe(s, dialOk)
    \/ \E s \in Subs, f \in Frames : Len(wire[s]) < MaxFramesTwo /\ PumpRead(s, f)
    \/ \E s \in Subs : Deliver(s)
    \/ \E s \in Subs : PumpExit(s)
    \/ \E s \in Subs : ReceiveClosed(s)
    \/ \E s \in Subs : Abandon(s)

SpecTwo == Init /\ [][NextTwo]_vars

\* calls of the OrderType codec and of Depth
NextTypes ==
    \/ \E o \in OrderTypes : CallMarshalText(o)
    \/ \E o \in OrderTypes, t \in TextInputs : CallUnmarshalText(o, t)
    \/ \E o \in OrderTypes : CallRoundTrip(o)
    \/ \E q \in SeqsUpTo(Quantities, MaxOrders) : CallDepth(q)

SpecTypes == Init /\ [][NextTypes]_vars

----------------------------------------------------------------------------
(* Notions the properties are stated with *)

\* the four wire strings of the order types
WireStrings == {"limit", "market", "fill-or-kill", "immediate-or-cancel"}

\* the last call got a response whose body decodes into the shape the operation expects
BodyDecodes ==
    /\ call.op # "none"
    /\ call.sent
    /\ call.transportOk
    /\ call.body.json
    /\ (call.op = "Place" => call.body.orderType \in WireStrings)

\* the last call got a response whose body does not decode
BodyUndecodable ==
    /\ call.op # "none"
    /\ call.sent
    /\ call.transportOk
    /\ ~(call.body.json /\ (call.op = "Place" => call.body.orderType \in WireStrings))

Ascending(q) == \A i \in 1..Len(q) - 1 : q[i] <= q[i + 1]
Descending(q) == \A i \in 1..Len(q) - 1 : q[i] >= q[i + 1]

IsPrefix(p, q) == Len(p) <= Len(q) /\ \A i \in 1..Len(p) : p[i] = q[i]

\* a read that failed or yielded bytes that do not decode
Failing(f) == f.kind \in {"readerr", "malformed"}

IsOkFrame(f) == f.kind = "json" /\ f.Ok
IsNotOkFrame(f) == f.kind = "json" /\ ~f.Ok
Readable(f) == f.kind = "json"

RECURSIVE PayloadsOf(_)
PayloadsOf(q) == IF q = <<>> THEN <<>> ELSE <<Head(q).payload>> \o PayloadsOf(Tail(q))

\* the payloads of the Ok=true frames among the frames read, in arrival order
OkPayloads(s) == PayloadsOf(SelectSeq(wire[s], IsOkFrame))

----------------------------------------------------------------------------
(* The claims *)

\* C1 (as claimed): whenever the body decodes as an envelope whose success flag is false,
\* do returns a non-nil error whose text equals the envelope's error string, whatever
\* the HTTP status.
C1_NotOkIsBusinessError ==
    (BodyDecodes /\ ~call.body.Ok) =>
        (call.err # NilError /\ call.err.text = call.body.Error)

\* C2 (as claimed): a frame whose Ok flag is false is the last frame the pump reads: it
\* ends the loop and closes the channel (after {ok,Q1}, {ok,Q2}, {not ok} the consumer
\* has Q1, Q2 and a closed channel).
C2_NotOkFrameEndsPump ==
    \A s \in Subs : \A i \in 1..Len(wire[s]) :
        IsNotOkFrame(wire[s][i]) =>
            (i = Len(wire[s]) /\ chanClosed[s] /\ pc[s] \in {"exit", "done"})

\* C3: the first read that fails or does not decode is the last read of the pump; the
\* channel is closed by it, the connection is closed only after the channel, nothing is
\* being sent, there was one dial only, and the subscription call had returned no error.
C3_FailureState ==
    \A s \in Subs :
        /\ \A i \in 1..Len(wire[s]) :
              Failing(wire[s][i]) =>
                  /\ i = Len(wire[s])
                  /\ chanClosed[s]
                  /\ closes[s] = 1
                  /\ pc[s] \in {"exit", "done"}
                  /\ pending[s] = 0
                  /\ dials[s] = 1
                  /\ ~ret[s].err
        /\ connClosed[s] => chanClosed[s]
        /\ pc[s] = "done" => connClosed[s]

\* C3: once the channel is closed, no frame is read, no value is delivered, no dial is
\* made, and what the subscription call returned (a nil error) is all the consumer has.
C3_AfterClose ==
    \A s \in Subs :
        chanClosed[s] =>
            /\ wire'[s] = wire[s]
            /\ received'[s] = received[s]
            /\ pending'[s] = pending[s]
            /\ dials'[s] = dials[s]
            /\ ret'[s] = ret[s]
            /\ chanClosed'[s]

\* C3: a failed read or decode ends the pump: channel closed, then connection closed,
\* and afterwards no read, no send, no dial; the consumer only sees the channel close.
C3_FailureEndsPump == [](C3_FailureState) /\ [][C3_AfterClose]_vars

\* C3 witness: after a delivered event a read failed, the channel and then the
\* connection were closed, and the consumer has seen the close.
C3_Witness ==
    \E s \in Subs :
        /\ Len(received[s]) >= 1
        /\ Failing(wire[s][Len(wire[s])])
        /\ chanClosed[s] /\ connClosed[s] /\ sawClose[s]

\* C4: at every moment the events the consumer has received are a prefix of the
\* payloads of the Ok=true frames read so far, in arrival order.
C4_ReceivedIsPrefix ==
    \A s \in Subs : IsPrefix(received[s], OkPayloads(s))

\* C4 witness: two different events were delivered, with an Ok=false frame among the
\* frames read.
C4_Witness ==
    \E s \in Subs :
        /\ Len(received[s]) = 2
        /\ received[s][1] # received[s][2]
        /\ \E i \in 1..Len(wire[s]) : IsNotOkFrame(wire[s][i])

\* C5 (as claimed): the pump reads only when no event is pending, and every frame read
\* that is not the terminating failure has been delivered or is the one being sent.
C5_NoFrameDiscarded ==
    \A s \in Subs :
        /\ pc[s] = "read" => pending[s] = 0
        /\ Len(SelectSeq(wire[s], Readable)) =
              Len(received[s]) + (IF pc[s] = "send" THEN 1 ELSE 0)

\* C6 (as claimed): when the dial fails, the call returns the dial error and a nil
\* channel, after one dial, with no pump started.
C6_NoChannelOnDialFailure ==
    \A s \in Subs :
        (ret[s].returned /\ ret[s].err) =>
            (ret[s].chanNil /\ dials[s] = 1 /\ pc[s] = "failed")

\* C7 (as claimed): a Place whose decoded response (a success envelope) echoes another
\* venue or symbol than the order's returns an error and no OrderState.
C7_EchoMismatchRejected ==
    (/\ call.op = "Place"
     /\ BodyDecodes
     /\ call.body.Ok
     /\ (call.body.venue # call.venue \/ call.body.symbol # call.stock))
        => (call.err # NilError /\ call.nilResult)

\* C8: when the response body does not decode, do returns the error made from the
\* status line if and only if the status is >= 500, and the decode error otherwise;
\* never a business error, never nil.
C8_UndecodableBody ==
    BodyUndecodable =>
        /\ call.err.kind = "status" <=> call.status >= 500
        /\ call.err.kind = "decode" <=> call.status < 500
        /\ call.err.kind = "status" => call.err.text = StatusLine(call.status)
        /\ call.err # NilError

\* C8 witness: a Place answered 503 with JSON whose order type does not decode got the
\* status error.
C8_Witness ==
    /\ call.op = "Place"
    /\ call.body.json
    /\ call.body.orderType \notin WireStrings
    /\ call.status = 503
    /\ call.err.kind = "status"

\* C9: UnmarshalText of the text MarshalText gives for an order type yields that order
\* type; UnmarshalText of a text that is none of the four wire strings returns an error
\* and leaves the target as it was.
C9_OrderTypeCodec ==
    /\ (unm.called /\ unm.ofMarshal) => (~unm.err /\ unm.after = unm.src)
    /\ (unm.called /\ unm.text \notin WireStrings) => (unm.err /\ unm.after = unm.before)
    /\ (unm.called /\ unm.text \in WireStrings) => ~unm.err

\* C9 witness: immediate-or-cancel went through MarshalText and back into a target
\* that held limit.
C9_Witness ==
    /\ unm.called /\ unm.ofMarshal
    /\ unm.src = ImmediateOrCancel
    /\ unm.before = Limit
    /\ unm.after = ImmediateOrCancel

\* C10 (as claimed): every successful OrderBook call returns asks ascending and bids
\* descending by price, whatever the order in the response.
C10_AlwaysSorted ==
    (call.op = "OrderBook" /\ ~call.nilResult) =>
        (Ascending(call.result.asks) /\ Descending(call.result.bids))

\* C10 (amended): every successful OrderBook call returns the asks and the bids in the
\* order the response lists them, so the asks are ascending and the bids descending
\* exactly when the response lists them so.
C10_OrderAsInResponse ==
    (call.op = "OrderBook" /\ ~call.nilResult) =>
        /\ call.result.asks = call.body.asks
        /\ call.result.bids = call.body.bids
        /\ Ascending(call.result.asks) <=> Ascending(call.body.asks)
        /\ Descending(call.result.bids) <=> Descending(call.body.bids)

\* C10 witness: a successful OrderBook call whose response lists the asks in
\* descending order and the bids in ascending order.
C10_Witness ==
    /\ call.op = "OrderBook"
    /\ ~call.nilResult
    /\ call.err = NilError
    /\ Len(call.body.asks) = 2 /\ call.body.asks[1] > call.body.asks[2]
    /\ Len(call.body.bids) = 2 /\ call.body.bids[1] < call.body.bids[2]


\* the sum of limb i over all the orders
RECURSIVE LimbSum(_, _)
LimbSum(orders, i) ==
    IF orders = <<>> THEN 0 ELSE Head(orders)[i] + LimbSum(Tail(orders), i)

\* the arithmetic sum of the quantities, unbounded: lo is the sum modulo 2^64 as limbs,
\* hi the number of times 2^64 goes into the sum
ExactSum(orders) ==
    LET t1 == LimbSum(orders, 1)
        t2 == LimbSum(orders, 2) + (t1 \div 65536)
        t3 == LimbSum(orders, 3) + (t2 \div 65536)
        t4 == LimbSum(orders, 4) + (t3 \div 65536)
    IN [hi |-> t4 \div 65536, lo |-> <<t1 % 65536, t2 % 65536, t3 % 65536, t4 % 65536>>]

\* the orders in the order given by the permutation p of their indexes
Permuted(orders, p) == [i \in 1..Len(orders) |-> orders[p[i]]]

\* the last Depth call gave the same value as Depth of every permutation of its orders
SameForPermutations ==
    \A p \in Permutations(1..Len(dep.orders)) :
        Depth(Permuted(dep.orders, p)) = dep.depth

\* C11 (as claimed): Depth() equals the arithmetic sum of the quantities, for every
\* sequence of orders, is the same for every permutation, and is 0 for no orders.
C11_DepthIsArithmeticSum ==
    dep.called =>
        /\ ExactSum(dep.orders).hi = 0
        /\ dep.depth = ExactSum(dep.orders).lo
        /\ SameForPermutations

\* C11 (amended): Depth() equals the sum of the quantities modulo 2^64, hence the
\* arithmetic sum whenever that is below 2^64; it is the same for every permutation
\* and 0 for no orders.
C11_DepthIsSumMod64 ==
    dep.called =>
        /\ dep.depth = ExactSum(dep.orders).lo
        /\ SameForPermutations
        /\ dep.orders = <<>> => dep.depth = Zero64

\* C11 witness: Depth of two different quantities whose sum is 2^64 or more.
C11_Witness ==
    /\ dep.called
    /\ Len(dep.orders) = 2
    /\ dep.orders[1] # dep.orders[2]
    /\ ExactSum(dep.orders).hi = 1
    /\ dep.depth # Zero64


\* C12 (as claimed): a Place or Judge whose body fails to serialize returns that
\* failure as an error value, and no HTTP request is created or sent.
C12_SerializeFailureIsError ==
    (call.op \in {"Place", "Judge"} /\ ~call.encoded) =>
        (~call.panicked /\ call.err.kind = "encode" /\ call.nilResult /\ ~call.sent)


\* C13: while the pump is blocked sending to a consumer that has stopped receiving,
\* neither the channel nor the connection is closed.
C13_BlockedState ==
    \A s \in Subs :
        (gone[s] /\ pc[s] = "send") => (~chanClosed[s] /\ ~connClosed[s])

\* C13: with the consumer gone, an Ok=true frame read leaves the pump at its send; a
\* pump at its send stays there, reads nothing and closes nothing; and a connection is
\* only ever closed by a pump whose handler returned an error.
C13_BlockedStep ==
    \A s \in Subs :
        /\ (gone[s] /\ pc[s] = "read" /\ wire'[s] # wire[s]
                /\ IsOkFrame(wire'[s][Len(wire'[s])]))
              => pc'[s] = "send"
        /\ (gone[s] /\ pc[s] = "send")
              => /\ pc'[s] = "send"
                 /\ gone'[s]
                 /\ wire'[s] = wire[s]
                 /\ pending'[s] = pending[s]
                 /\ received'[s] = received[s]
                 /\ ~chanClosed'[s]
                 /\ ~connClosed'[s]
        /\ (connClosed'[s] /\ ~connClosed[s]) => pc[s] = "exit"

\* C13: a consumer that stops receiving while Ok=true frames keep coming leaves the
\* pump blocked on its send for ever: no further read, no close of the channel, no
\* close of the connection, and nothing the consumer does releases the connection.
C13_AbandonedPumpBlocks == [](C13_BlockedState) /\ [][C13_BlockedStep]_vars

\* C13 witness: after one delivery the consumer has gone and the pump is blocked
\* sending the next event, channel and connection open.
C13_Witness ==
    \E s \in Subs :
        /\ gone[s]
        /\ pc[s] = "send"
        /\ Len(received[s]) >= 1
        /\ ~chanClosed[s] /\ ~connClosed[s]


\* C14: under fair scheduling and a consumer that keeps receiving, the n-th Ok=true
\* frame read is eventually the n-th event the consumer has received, and once a read
\* or decode has failed the channel is closed, the connection is eventually closed and
\* the pump goroutine has ended.
C14_DeliveredThenReleased ==
    \A s \in Subs :
        /\ \A n \in 1..MaxFrames :
              (Len(OkPayloads(s)) >= n)
                  ~> (Len(received[s]) >= n /\ received[s][n] = OkPayloads(s)[n])
        /\ (\E i \in 1..Len(wire[s]) : Failing(wire[s][i]))
              ~> (chanClosed[s] /\ connClosed[s] /\ pc[s] = "done")

\* C14 witness: two events were delivered, then a read failed and the pump ended with
\* channel and connection closed.
C14_Witness ==
    \E s \in Subs :
        /\ Len(received[s]) = 2
        /\ Len(wire[s]) = 3
        /\ Failing(wire[s][3])
        /\ pc[s] = "done" /\ chanClosed[s] /\ connClosed[s]


\* everything one subscription consists of: its goroutine's position, its connection,
\* its channel and its consumer
SubState(s) ==
    <<pc[s], wire[s], pending[s], received[s], chanClosed[s], closes[s], connClosed[s],
      dials[s], ret[s], sawClose[s], gone[s]>>

\* C15: at every moment a subscription's channel is closed only by a failing frame read
\* from its own connection, its connection is closed only after its own channel, and
\* what its consumer received is a prefix of the Ok=true frames of its own connection.
C15_OwnState ==
    \A s \in Subs :
        /\ chanClosed[s] <=> (wire[s] # <<>> /\ Failing(wire[s][Len(wire[s])]))
        /\ connClosed[s] => (chanClosed[s] /\ pc[s] = "done")
        /\ IsPrefix(received[s], OkPayloads(s))
        /\ (pc[s] = "send" /\ ~chanClosed[s] /\ ~gone[s]) => ENABLED Deliver(s)

\* C15: a step of one subscription (a read, a failure, a close, a send or its consumer
\* giving up) leaves everything of the other subscription as it was.
C15_OwnStep ==
    \A s \in Subs : \A t \in Subs \ {s} :
        SubState(s)' # SubState(s) => SubState(t)' = SubState(t)

\* C15: two concurrent subscriptions share no state, in every interleaving.
C15_Independent == [](C15_OwnState) /\ [][C15_OwnStep]_vars

\* C15 witness: one pump failed and closed its channel and connection while the other,
\* with a consumer that had received an event, is blocked in a send nobody receives;
\* the other's channel and connection are open.
C15_Witness ==
    \E s \in Subs : \E t \in Subs \ {s} :
        /\ pc[s] = "done" /\ chanClosed[s] /\ connClosed[s]
        /\ Len(received[t]) = 1 /\ gone[t] /\ pc[t] = "send"
        /\ ~chanClosed[t] /\ ~connClosed[t]


\* C16 (as claimed): when the response body decodes, do returns nil exactly when the
\* envelope's error string is empty, and otherwise an error whose text is that error
\* string, whatever the Ok flag and the HTTP status are.
C16_ErrorStringDecides ==
    BodyDecodes =>
        /\ call.err = NilError <=> call.body.Error = <<>>
        /\ call.body.Error # <<>> =>
              (call.err.kind = "business" /\ call.err.text = call.body.Error)


\* C17: the channel has been closed at most once, and once it is closed the goroutine
\* is out of the loop with no send in progress.
C17_ClosedOnceState ==
    \A s \in Subs :
        /\ closes[s] <= 1
        /\ chanClosed[s] <=> closes[s] = 1
        /\ chanClosed[s] => (pc[s] \in {"exit", "done"} /\ pending[s] = 0)

\* C17: after the handler invocation that closed the channel, the handler is not invoked
\* again (no further frame is read), the channel is not closed again and nothing is sent.
C17_ClosedOnceStep ==
    \A s \in Subs :
        chanClosed[s] =>
            /\ wire'[s] = wire[s]
            /\ closes'[s] = closes[s]
            /\ pending'[s] = pending[s]
            /\ received'[s] = received[s]
            /\ pc'[s] \in {"exit", "done"}

\* C17: in every execution of a pump the channel is closed at most once, nothing is
\* sent on it after the close, and the closing handler invocation is the last one.
C17_ClosedOnce == [](C17_ClosedOnceState) /\ [][C17_ClosedOnceStep]_vars

\* C17 witness: the handler was invoked three times, sending, skipping an Ok=false
\* frame and then closing the channel, and the goroutine has ended after that one close.
C17_Witness ==
    \E s \in Subs :
        /\ Len(wire[s]) = 3
        /\ IsOkFrame(wire[s][1]) /\ IsNotOkFrame(wire[s][2]) /\ Failing(wire[s][3])
        /\ received[s] = <<wire[s][1].payload>>
        /\ closes[s] = 1
        /\ pc[s] = "done"

====
